---------------------------- MODULE Spec2Model ----------------------------
(***************************************************************************)
(* A model of dawgdic-rs: the DAWG builder (src/src/dawg.rs), the          *)
(* double-array dictionary builder and the dictionary with its             *)
(* serialization (src/src/dictionary.rs).                                  *)
(*                                                                         *)
(* Pools are 0-indexed vectors in the source; here they are sequences and  *)
(* At(p, i) reads the element the source calls p[i].  A u32 that can reach *)
(* bit 31 is kept as two parts (hash words as 16-bit halves, dictionary    *)
(* units as bit 31 plus the low 31 bits), because TLC's integers are     *)
(* 32 bits wide and signed.                                                *)
(***************************************************************************)
EXTENDS Integers, Sequences, FiniteSets, TLC

\* ------------------------------------------------------------------ bounds

\* How many insert_key calls may succeed in one run.
MaxKeys == 3

\* The keys insert_key is called with (bytes; 97 'a', 99 'c', 102 'f', 114 'r').
KeyUniverse ==
    { <<>>, <<97>>, <<97, 114>>, <<99>>, <<99, 97, 114>>,
      <<102>>, <<102, 97, 114>>, <<114>> }

\* The values insert_key is called with.
Values == {1, 2}

\* ------------------------------------------------------- pools (pool.rs)

At(p, i) == p[i + 1]

SetAt(p, i, v) == [p EXCEPT ![i + 1] = v]

InRange(p, i) == i >= 0 /\ i < Len(p)

\* Vec::resize(size, value) on an empty or shorter pool.
Resize(p, size, v) == [i \in 1..size |-> IF i <= Len(p) THEN p[i] ELSE v]

\* ------------------------------------------------------ bit operations

RECURSIVE BitXor(_, _)
BitXor(a, b) ==
    IF a = 0 THEN b
    ELSE IF b = 0 THEN a
    ELSE ((a + b) % 2) + 2 * BitXor(a \div 2, b \div 2)

RECURSIVE BitAnd(_, _)
BitAnd(a, b) ==
    IF a = 0 \/ b = 0 THEN 0
    ELSE ((a % 2) * (b % 2)) + 2 * BitAnd(a \div 2, b \div 2)

RECURSIVE BitOr(_, _)
BitOr(a, b) ==
    IF a = 0 THEN b
    ELSE IF b = 0 THEN a
    ELSE (IF a % 2 = 1 \/ b % 2 = 1 THEN 1 ELSE 0) + 2 * BitOr(a \div 2, b \div 2)

\* A u32 as 16-bit halves: the hash arithmetic wraps at 2^32.
Half == 2 ^ 16

W32(n) == [h |-> (n \div Half) % Half, l |-> n % Half]

WXor(a, b) == [h |-> BitXor(a.h, b.h), l |-> BitXor(a.l, b.l)]

WNot(a) == [h |-> Half - 1 - a.h, l |-> Half - 1 - a.l]

\* overflowing_add(..).0
WAdd(a, b) ==
    [h |-> (a.h + b.h + ((a.l + b.l) \div Half)) % Half, l |-> (a.l + b.l) % Half]

\* a << k for 0 < k < 16
WShl(a, k) ==
    [h |-> ((a.h * (2 ^ k)) + ((a.l * (2 ^ k)) \div Half)) % Half,
     l |-> (a.l * (2 ^ k)) % Half]

\* a >> k for 0 < k <= 16
WShr(a, k) ==
    [h |-> a.h \div (2 ^ k),
     l |-> (a.l \div (2 ^ k)) + ((a.h % (2 ^ k)) * (2 ^ (16 - k)))]

\* overflowing_mul(m).0 for m < 2^15
WMul(a, m) ==
    [h |-> ((a.h * m) + ((a.l * m) \div Half)) % Half, l |-> (a.l * m) % Half]

\* value % size for a power of two size <= 2^16
WMod(a, size) == a.l % size

\* -------------------------------------------------- DawgUnit (dawg.rs)

DefaultUnit ==
    [child |-> 0, sibling |-> 0, label |-> 0, is_state |-> FALSE, has_sibling |-> FALSE]

B2N(b) == IF b THEN 1 ELSE 0

\* DawgUnit::base; the packed value stays below 2^31 for the children and
\* values of the model.
UnitBase(u) ==
    IF u.label = 0
    THEN BitOr(u.child * 2, B2N(u.has_sibling))
    ELSE BitOr(BitOr(u.child * 4, 2 * B2N(u.is_state)), B2N(u.has_sibling))

\* BaseUnit accessors
BaseChild(base) == base \div 4

BaseHasSibling(base) == base % 2 /= 0

BaseValue(base) == base \div 2

BaseIsState(base) == (base \div 2) % 2 /= 0

\* ------------------------------------------------------- DawgBuilder

HashTableInitialSize == 256

Last(q) == q[Len(q)]

Pop(q) == SubSeq(q, 1, Len(q) - 1)

\* hash_from_base, one operator per statement.
hash_mix1(v) == WNot(WAdd(v, WShl(v, 15)))

hash_mix2(v) == WXor(v, WShr(v, 12))

hash_mix3(v) == WAdd(v, WShl(v, 2))

hash_mix4(v) == WXor(v, WShr(v, 4))

hash_mix5(v) == WMul(v, 2057)

hash_mix6(v) == WXor(v, WShr(v, 16))

hash_from_base(value, label) ==
    hash_mix6(hash_mix5(hash_mix4(hash_mix3(hash_mix2(hash_mix1(
        WXor(W32(value), [h |-> label * 256, l |-> 0])))))))

allocate_transition(b) ==
    [b EXCEPT !.flag_pool = Append(@, FALSE),
              !.base_pool = Append(@, 0),
              !.label_pool = Append(@, 0)]

\* The index reuse_or_create_unit returns.
reuse_index(b) ==
    IF Len(b.unused_units) > 0 THEN Last(b.unused_units) ELSE Len(b.unit_pool)

reuse_or_create_unit(b) ==
    IF Len(b.unused_units) > 0
    THEN [b EXCEPT !.unused_units = Pop(@),
                   !.unit_pool = SetAt(@, reuse_index(b), DefaultUnit)]
    ELSE [b EXCEPT !.unit_pool = Append(@, DefaultUnit)]

\* Default::default() with the 256-slot hash table and num_states = 1.
EmptyBuilder ==
    [base_pool |-> <<>>, label_pool |-> <<>>, flag_pool |-> <<>>,
     unit_pool |-> <<>>,
     hash_table |-> [i \in 1..HashTableInitialSize |-> 0],
     unfixed_units |-> <<>>, unused_units |-> <<>>,
     num_states |-> 1, num_merged_transitions |-> 0,
     num_merging_states |-> 0,
     status |-> "ok"]

\* new's last two statements: the root's label and its push.
root_pushed(b) ==
    [b EXCEPT !.unit_pool = SetAt(@, 0, [At(@, 0) EXCEPT !.label = 255]),
              !.unfixed_units = Append(@, 0)]

\* DawgBuilder::new
NewBuilder == root_pushed(allocate_transition(reuse_or_create_unit(EmptyBuilder)))

\* The sibling chain that starts at unit i: i, sibling(i), ... up to the 0 that
\* ends it.  The source walks it with `loop { if i == 0 { break } ... }`; an
\* index outside the pool panics there, and a chain that never reaches 0 does
\* not terminate.
RECURSIVE sibling_chain(_, _, _)
sibling_chain(pool, i, acc) ==
    IF i = 0 THEN [status |-> "ok", chain |-> acc]
    ELSE IF ~InRange(pool, i) THEN [status |-> "panic", chain |-> acc]
    ELSE IF Len(acc) > Len(pool) THEN [status |-> "hang", chain |-> acc]
    ELSE sibling_chain(pool, At(pool, i).sibling, Append(acc, i))

\* hash_unit: the XOR of hash_from_base over the chain.
RECURSIVE hash_chain(_, _, _)
hash_chain(b, chain, k) ==
    IF k > Len(chain) THEN W32(0)
    ELSE WXor(hash_from_base(UnitBase(At(b.unit_pool, chain[k])),
                             At(b.unit_pool, chain[k]).label),
              hash_chain(b, chain, k + 1))

hash_unit(b, chain) == hash_chain(b, chain, 1)

RECURSIVE hash_transition(_, _)
hash_transition(b, index) ==
    IF index = 0 THEN W32(0)
    ELSE IF ~BaseHasSibling(At(b.base_pool, index))
    THEN hash_from_base(At(b.base_pool, index), At(b.label_pool, index))
    ELSE WXor(hash_from_base(At(b.base_pool, index), At(b.label_pool, index)),
              hash_transition(b, index + 1))

\* are_equal, first loop: one committed transition per further sibling of the
\* chain, each but the last with has_sibling.  Returns the index of the last
\* transition of the block, or -1 when the block is shorter.
RECURSIVE block_end(_, _, _, _)
block_end(b, chain, k, transition_index) ==
    IF k > Len(chain) THEN transition_index
    ELSE IF ~BaseHasSibling(At(b.base_pool, transition_index)) THEN -1
    ELSE block_end(b, chain, k + 1, transition_index + 1)

\* are_equal, second loop: the chain (newest sibling first) against the block
\* read backwards from its last transition.
RECURSIVE same_units(_, _, _, _)
same_units(b, chain, k, transition_index) ==
    IF k > Len(chain) THEN TRUE
    ELSE IF UnitBase(At(b.unit_pool, chain[k])) /= At(b.base_pool, transition_index)
    THEN FALSE
    ELSE IF At(b.unit_pool, chain[k]).label /= At(b.label_pool, transition_index)
    THEN FALSE
    ELSE same_units(b, chain, k + 1, transition_index - 1)

\* are_equal, from the end of the first loop on.
equal_from(b, chain, last) ==
    IF last = -1 THEN FALSE
    ELSE IF BaseHasSibling(At(b.base_pool, last)) THEN FALSE
    ELSE same_units(b, chain, 1, last)

are_equal(b, chain, transition_index) ==
    equal_from(b, chain, block_end(b, chain, 2, transition_index))

\* find_unit's probe loop from hash_id.
RECURSIVE probe_unit(_, _, _)
probe_unit(b, chain, hash_id) ==
    IF At(b.hash_table, hash_id) = 0
    THEN [hash_id |-> hash_id, transition_id |-> 0]
    ELSE IF are_equal(b, chain, At(b.hash_table, hash_id))
    THEN [hash_id |-> hash_id, transition_id |-> At(b.hash_table, hash_id)]
    ELSE probe_unit(b, chain, (hash_id + 1) % Len(b.hash_table))

find_unit(b, chain) ==
    probe_unit(b, chain, WMod(hash_unit(b, chain), Len(b.hash_table)))

\* find_transition's probe loop: the first empty slot from hash_id.
RECURSIVE probe_empty(_, _)
probe_empty(table, hash_id) ==
    IF At(table, hash_id) = 0 THEN hash_id
    ELSE probe_empty(table, (hash_id + 1) % Len(table))

find_transition(b, index) ==
    [hash_id |-> probe_empty(b.hash_table,
                             WMod(hash_transition(b, index), Len(b.hash_table))),
     transition_id |-> 0]

\* expand_hash_table's rebuild loop, for index in from..end-1.  The range is
\* walked in halves, in index order, the builder h the first half leaves
\* being a value before the second half starts.
RECURSIVE rehash_from(_, _, _)
rehash_from(b, index, end) ==
    IF index >= end THEN b
    ELSE IF index + 1 < end
    THEN CHOOSE r \in {rehash_from(h, (index + end) \div 2, end) :
                           h \in {rehash_from(b, index, (index + end) \div 2)}} : TRUE
    ELSE IF At(b.label_pool, index) = 0 \/ BaseIsState(At(b.base_pool, index))
    THEN [b EXCEPT !.hash_table = SetAt(@, find_transition(b, index).hash_id, index)]
    ELSE b

\* expand_hash_table without its loop: the table is doubled and left empty.
expand_hash_table_cleared(b) ==
    [b EXCEPT !.hash_table = [i \in 1..(2 * Len(@)) |-> 0]]

expand_hash_table(b) ==
    rehash_from([b EXCEPT !.hash_table = [i \in 1..(2 * Len(@)) |-> 0]], 1,
                Len(b.base_pool))

\* fix_units: the expansion check at the head of an iteration.
expand_if_full(b) ==
    IF b.num_states >= Len(b.hash_table) - (Len(b.hash_table) \div 4)
    THEN expand_hash_table(b) ELSE b

\* The hit branch without the count of the merged transitions.
merge_into_uncounted(b, num_of_siblings, matched_index) ==
    [b EXCEPT !.num_merging_states = IF At(b.flag_pool, matched_index) THEN @ ELSE @ + 1,
              !.flag_pool = SetAt(@, matched_index, TRUE)]

\* fix_units, hit branch.
merge_into(b, num_of_siblings, matched_index) ==
    [b EXCEPT !.num_merged_transitions = @ + num_of_siblings,
              !.num_merging_states = IF At(b.flag_pool, matched_index) THEN @ ELSE @ + 1,
              !.flag_pool = SetAt(@, matched_index, TRUE)]

\* fix_units, miss branch: allocate one transition per sibling.
RECURSIVE allocate_n(_, _)
allocate_n(b, n) == IF n = 0 THEN b ELSE allocate_n(allocate_transition(b), n - 1)

\* fix_units, miss branch: the transition_index the allocation loop leaves
\* (the last transition allocated; 0 when the loop did not run).
last_allocated(b, n) == IF n = 0 THEN 0 ELSE Len(b.label_pool) - 1

\* The copy with the chain read from its tail: the block is filled in chain
\* order, newest sibling first.
RECURSIVE copy_chain_head_first(_, _, _, _)
copy_chain_head_first(b, chain, k, transition_index) ==
    IF k > Len(chain) THEN b
    ELSE copy_chain_head_first(
             [b EXCEPT !.base_pool =
                           SetAt(@, transition_index,
                                 UnitBase(At(b.unit_pool, chain[Len(chain) + 1 - k]))),
                       !.label_pool =
                           SetAt(@, transition_index,
                                 At(b.unit_pool, chain[Len(chain) + 1 - k]).label)],
             chain, k + 1, transition_index - 1)

\* fix_units, miss branch: copy the chain into the block, last transition
\* first (transition_index counts down).
RECURSIVE copy_chain(_, _, _, _)
copy_chain(b, chain, k, transition_index) ==
    IF k > Len(chain) THEN b
    ELSE copy_chain(
             [b EXCEPT !.base_pool =
                           SetAt(@, transition_index, UnitBase(At(b.unit_pool, chain[k]))),
                       !.label_pool =
                           SetAt(@, transition_index, At(b.unit_pool, chain[k]).label)],
             chain, k + 1, transition_index - 1)

\* fix_units, miss branch: the matched_index of the block allocated in a.
new_block(a, chain) == last_allocated(a, Len(chain)) - Len(chain) + 1

\* The miss branch with a state counted for every transition of the block.
commit_block_per_transition(a, chain, hash_id) ==
    [copy_chain(a, chain, 1, last_allocated(a, Len(chain))) EXCEPT
        !.hash_table = SetAt(@, hash_id, new_block(a, chain)),
        !.num_states = @ + Len(chain) + 1]

\* fix_units, miss branch after the allocation (a): the copy, the hash table
\* entry and the state count.
commit_block(a, chain, hash_id) ==
    [copy_chain(a, chain, 1, last_allocated(a, Len(chain))) EXCEPT
        !.hash_table = SetAt(@, hash_id, new_block(a, chain)),
        !.num_states = @ + 1]

\* fix_units, the end of an iteration: the chain's units are marked unused
\* and the unfixed unit now on top of the stack gets matched_index as child
\* (unwrap panics on an empty stack).
release_and_link(b, chain, matched_index) ==
    IF Len(b.unfixed_units) = 0
    THEN [b EXCEPT !.unused_units = @ \o chain, !.status = "panic"]
    ELSE [b EXCEPT
            !.unused_units = @ \o chain,
            !.unit_pool =
                SetAt(@, Last(b.unfixed_units),
                      [At(@, Last(b.unfixed_units)) EXCEPT !.child = matched_index])]

\* fix_units, miss branch from the allocation on.
fix_missed(a, chain, hash_id) ==
    release_and_link(commit_block(a, chain, hash_id), chain, new_block(a, chain))

\* fix_units, from find_unit's result on.
fix_found(b, chain, unfixed_unit) ==
    IF unfixed_unit.transition_id /= 0
    THEN release_and_link(merge_into(b, Len(chain), unfixed_unit.transition_id),
                          chain, unfixed_unit.transition_id)
    ELSE fix_missed(allocate_n(b, Len(chain)), chain, unfixed_unit.hash_id)

\* fix_units, from the sibling count on.
fix_chain(b, sc) ==
    IF sc.status /= "ok" THEN [b EXCEPT !.status = sc.status]
    ELSE fix_found(b, sc.chain, find_unit(b, sc.chain))

\* fix_units, after the expansion check.
fix_counted(b, unfixed_index) ==
    fix_chain(b, sibling_chain(b.unit_pool, unfixed_index, <<>>))

\* One iteration of fix_units' while loop, for the popped unfixed_index (the
\* pop itself is done by fix_units).
fix_one(b, unfixed_index) ==
    CHOOSE r \in {fix_counted(e, unfixed_index) : e \in {expand_if_full(b)}} : TRUE

RECURSIVE fix_units(_, _)
fix_units(b, index) ==
    IF b.status /= "ok" \/ Len(b.unfixed_units) = 0 THEN b
    ELSE IF Last(b.unfixed_units) = index THEN [b EXCEPT !.unfixed_units = Pop(@)]
    ELSE fix_units(fix_one([b EXCEPT !.unfixed_units = Pop(@)], Last(b.unfixed_units)),
                   index)

\* insert_key: the key's bytes and the 0 that terminates them.
key_bytes(key) == Append(key, 0)

\* insert_key_bytes, the Greater arm: has_sibling on the child, fix_units.
fix_below(b, child_index) ==
    fix_units([b EXCEPT !.unit_pool =
                   SetAt(@, child_index, [At(@, child_index) EXCEPT !.has_sibling = TRUE])],
              child_index)

\* insert_key_bytes, first loop ("find existing chain of units") from byte
\* pos of key at unit index.  res is "Err" (return Err), "append" (the loop
\* ended or broke; the second loop starts at key_pos under index) or "panic".
RECURSIVE find_chain(_, _, _, _)
find_chain(b, key, pos, index) ==
    IF pos >= Len(key)
    THEN [res |-> "append", b |-> b, index |-> index, key_pos |-> Len(key) - 1]
    ELSE IF ~InRange(b.unit_pool, index)
    THEN [res |-> "panic", b |-> b, index |-> index, key_pos |-> pos]
    ELSE IF At(b.unit_pool, index).child = 0
    THEN [res |-> "append", b |-> b, index |-> index, key_pos |-> pos]
    ELSE IF ~InRange(b.unit_pool, At(b.unit_pool, index).child)
    THEN [res |-> "panic", b |-> b, index |-> index, key_pos |-> pos]
    ELSE IF At(key, pos) < At(b.unit_pool, At(b.unit_pool, index).child).label
    THEN [res |-> "Err", b |-> b, index |-> index, key_pos |-> pos]
    ELSE IF At(key, pos) > At(b.unit_pool, At(b.unit_pool, index).child).label
    THEN [res |-> "append", b |-> fix_below(b, At(b.unit_pool, index).child),
          index |-> index, key_pos |-> pos]
    ELSE find_chain(b, key, pos + 1, At(b.unit_pool, index).child)

\* insert_key_bytes, the body of the second loop after reuse_or_create_unit
\* (b1) returned child_index.
link_child(b1, index, child_index, byte) ==
    [b1 EXCEPT
       !.unit_pool =
           [@ EXCEPT
              ![child_index + 1] =
                  [@ EXCEPT !.is_state = IF At(b1.unit_pool, index).child = 0
                                         THEN TRUE ELSE @,
                            !.sibling = At(b1.unit_pool, index).child,
                            !.label = byte],
              ![index + 1] = [@ EXCEPT !.child = child_index]],
       !.unfixed_units = Append(@, child_index)]

\* insert_key_bytes, second loop: one new unit per byte of key[key_pos..],
\* each the new first child of index.  Returns the builder and the last index.
RECURSIVE append_units(_, _, _, _)
append_units(b, key, pos, index) ==
    IF pos >= Len(key) THEN [b |-> b, index |-> index]
    ELSE append_units(link_child(reuse_or_create_unit(b), index, reuse_index(b),
                                 At(key, pos)),
                      key, pos + 1, reuse_index(b))

\* insert_key_bytes, the set_value that ends it.
set_value_at(a, value) ==
    [a.b EXCEPT !.unit_pool = SetAt(@, a.index, [At(@, a.index) EXCEPT !.child = value])]

\* insert_key_bytes whose Less arm leaves the loop as the Greater arm does,
\* without the return.
insert_after_no_return(f, key, value) ==
    IF f.res = "panic" \/ f.b.status /= "ok"
    THEN [res |-> "panic",
          b |-> [f.b EXCEPT !.status = IF @ = "ok" THEN "panic" ELSE @]]
    ELSE [res |-> "Ok",
          b |-> set_value_at(append_units(f.b, key, f.key_pos, f.index), value)]

\* insert_key_bytes whose Less arm sets has_sibling on the child, as the
\* Greater arm does, before it returns Err.
insert_after_err_marked(f, key, value) ==
    IF f.res = "Err"
    THEN [res |-> "Err",
          b |-> [f.b EXCEPT !.unit_pool =
                    SetAt(@, At(@, f.index).child,
                          [At(@, At(@, f.index).child) EXCEPT !.has_sibling = TRUE])]]
    ELSE IF f.res = "panic" \/ f.b.status /= "ok"
    THEN [res |-> "panic",
          b |-> [f.b EXCEPT !.status = IF @ = "ok" THEN "panic" ELSE @]]
    ELSE [res |-> "Ok",
          b |-> set_value_at(append_units(f.b, key, f.key_pos, f.index), value)]

\* insert_key_bytes after the first loop (f): the result and the builder.
insert_after(f, key, value) ==
    IF f.res = "Err" THEN [res |-> "Err", b |-> f.b]
    ELSE IF f.res = "panic" \/ f.b.status /= "ok"
    THEN [res |-> "panic",
          b |-> [f.b EXCEPT !.status = IF @ = "ok" THEN "panic" ELSE @]]
    ELSE [res |-> "Ok",
          b |-> set_value_at(append_units(f.b, key, f.key_pos, f.index), value)]

insert_key_bytes(b, key, value) == insert_after(find_chain(b, key, 0, 0), key, value)

insert_key(b, key, value) == insert_key_bytes(b, key_bytes(key), value)

\* DawgBuilder::build, the two statements after fix_units(0).
root_copied(f) ==
    IF f.status /= "ok" THEN f
    ELSE [f EXCEPT !.base_pool = SetAt(@, 0, UnitBase(At(f.unit_pool, 0))),
                   !.label_pool = SetAt(@, 0, At(f.unit_pool, 0).label)]

\* DawgBuilder::build: the builder after fix_units(0) and the root's copy.
build_fixed(b) == root_copied(fix_units(b, 0))

\* num_merged_states as build computes it (u32; the operands of the model
\* stay far below 2^31, and a negative result stands for the wrapped one).
merged_states(num_transitions, num_merged_transitions, num_states) ==
    num_transitions + num_merged_transitions + 1 - num_states

\* The Dawg that build returns from the builder build_fixed leaves.
build_dawg(f) ==
    [num_states |-> f.num_states,
     num_merged_transitions |-> f.num_merged_transitions,
     num_merged_states |->
         merged_states(Len(f.base_pool) - 1, f.num_merged_transitions, f.num_states),
     num_merging_states |-> f.num_merging_states,
     base_pool |-> f.base_pool,
     label_pool |-> f.label_pool,
     flag_pool |-> f.flag_pool]

\* Dawg accessors
dawg_child(d, index) == BaseChild(At(d.base_pool, index))

dawg_sibling(d, index) == IF BaseHasSibling(At(d.base_pool, index)) THEN index + 1 ELSE 0

dawg_value(d, index) == BaseValue(At(d.base_pool, index))

dawg_label(d, index) == At(d.label_pool, index)

dawg_is_leaf(d, index) == dawg_label(d, index) = 0

dawg_is_merging(d, index) == At(d.flag_pool, index)

states_count(d) == d.num_states

transition_count(d) == Len(d.base_pool) - 1

merged_transitions_count(d) == d.num_merged_transitions

merged_states_count(d) == d.num_merged_states

merging_states_count(d) == d.num_merging_states

\* ------------------------------------------- DictionaryUnit (dictionary.rs)

\* A DictionaryUnit(u32) as its bit 31 (leaf, IS_LEAF_BIT) and its low 31 bits.
ZeroUnit == [leaf |-> FALSE, bits |-> 0]

OFFSET_MAX == 2 ^ 21

HAS_LEAF_BIT == 2 ^ 8

EXTENSION_BIT == 2 ^ 9

LOWER_MASK == 255

\* A u32 below 2^31 in the two-part form, for comparison with unit_label.
U32(n) == [leaf |-> FALSE, bits |-> n]

unit_has_leaf(u) == BitAnd(u.bits, HAS_LEAF_BIT) /= 0

unit_set_has_leaf(u) == [u EXCEPT !.bits = BitOr(@, HAS_LEAF_BIT)]

\* self.0 & (IS_LEAF_BIT ^ PRECISION_MASK)
unit_value(u) == u.bits

\* self.0 = value | IS_LEAF_BIT
unit_set_value(u, value) == [leaf |-> TRUE, bits |-> value]

\* self.0 & (IS_LEAF_BIT | 0xFF)
unit_label(u) == [leaf |-> u.leaf, bits |-> u.bits % 256]

\* self.0 = (self.0 & !0xFF) | value
unit_set_label(u, value) == [u EXCEPT !.bits = BitOr(@ - (@ % 256), value)]

\* (self.0 >> 10) << ((self.0 & EXTENSION_BIT) >> 6)
unit_offset(u) ==
    ((IF u.leaf THEN 2 ^ 21 ELSE 0) + (u.bits \div 1024))
        * (IF BitAnd(u.bits, EXTENSION_BIT) /= 0 THEN 2 ^ 8 ELSE 1)

\* set_offset: whether the offset was stored, and the unit it leaves.
unit_set_offset(u, offset) ==
    IF offset >= OFFSET_MAX * 256 THEN [ok |-> FALSE, unit |-> u]
    ELSE LET kept == BitAnd(u.bits, HAS_LEAF_BIT + 255)
         IN  [ok |-> TRUE,
              unit |-> [u EXCEPT !.bits =
                           IF offset < OFFSET_MAX
                           THEN BitOr(kept, offset * 1024)
                           ELSE BitOr(kept, BitOr(offset * 4, EXTENSION_BIT))]]

\* ------------------------------------------------------ DictionaryExtra

ZeroExtra == [lo |-> 0, hi |-> 0]

set_is_fixed(e) == [e EXCEPT !.lo = BitOr(@, 1)]

set_next(e, next) == [e EXCEPT !.lo = BitOr(@ % 2, next * 2)]

set_is_used(e) == [e EXCEPT !.hi = BitOr(@, 1)]

set_prev(e, prev) == [e EXCEPT !.hi = BitOr(@ % 2, prev * 2)]

is_fixed(e) == e.lo % 2 = 1

extra_next(e) == e.lo \div 2

is_used(e) == e.hi % 2 = 1

extra_prev(e) == e.hi \div 2

\* ---------------------------------------------------- DictionaryBuilder

NUM_OF_UNFIXED_BLOCKS == 16

BLOCK_SIZE == 1

\* The cells expand_dictionary adds at a time.
EXPAND_SIZE == 256

NewDictionaryBuilder(dawg) ==
    [dawg |-> dawg, units |-> <<>>, extras |-> <<>>, labels |-> <<>>,
     link_table |-> <<>>, unfixed_index |-> 0, num_unused_nuts |-> 0,
     depth |-> 0, status |-> "ok"]

ExtraSetNext(extras, i, next) == SetAt(extras, i, set_next(At(extras, i), next))

ExtraSetPrev(extras, i, prev) == SetAt(extras, i, set_prev(At(extras, i), prev))

ExtraSetFixed(extras, i) == SetAt(extras, i, set_is_fixed(At(extras, i)))

ExtraSetUsed(extras, i) == SetAt(extras, i, set_is_used(At(extras, i)))

RECURSIVE reserve_unit(_, _)

\* fix_block, second loop, for index in from..end-1.
RECURSIVE fix_block_from(_, _, _, _)
fix_block_from(d, index, end, unused_offset_for_label) ==
    IF index >= end \/ d.status /= "ok" THEN d
    ELSE IF is_fixed(At(d.extras, index))
    THEN fix_block_from(d, index + 1, end, unused_offset_for_label)
    ELSE fix_block_from(
             [reserve_unit(d, index) EXCEPT
                 !.units = SetAt(@, index,
                                 unit_set_label(At(@, index),
                                                BitXor(index, unused_offset_for_label))),
                 !.num_unused_nuts = @ + 1],
             index + 1, end, unused_offset_for_label)

\* fix_block, first loop: the first offset of begin..end-1 whose extra is not
\* is_used, or 0.
RECURSIVE first_unused(_, _, _)
first_unused(d, offset, end) ==
    IF offset >= end THEN 0
    ELSE IF ~is_used(At(d.extras, offset)) THEN offset
    ELSE first_unused(d, offset + 1, end)

fix_block(d, block_id) ==
    fix_block_from(d, block_id * BLOCK_SIZE, (block_id * BLOCK_SIZE) + BLOCK_SIZE,
                   first_unused(d, block_id * BLOCK_SIZE,
                                (block_id * BLOCK_SIZE) + BLOCK_SIZE))

\* expand_dictionary: the extras after resize and the loop that chains the
\* new cells src..dest-1 (every new cell but the last gets its next, every
\* new cell but the first its prev).
chained_extras(extras, src, dest) ==
    [j \in 1..dest |->
        IF j <= src THEN extras[j]
        ELSE [lo |-> IF j - 1 < dest - 1 THEN 2 * j ELSE 0,
              hi |-> IF j - 1 > src THEN 2 * (j - 2) ELSE 0]]

\* expand_dictionary: the two statements that close the new cells to a ring.
closed_ring(extras, src, dest) ==
    ExtraSetNext(ExtraSetPrev(extras, src, dest - 1), dest - 1, src)

\* expand_dictionary: the new ring's ends are pointed at the old ring.
splice_in(extras, src, dest, unfixed_index) ==
    ExtraSetNext(ExtraSetPrev(extras, src, extra_prev(At(extras, unfixed_index))),
                 dest - 1, unfixed_index)

\* expand_dictionary: the old ring is pointed at the new ring's ends.
splice_out(extras, src, dest, unfixed_index) ==
    ExtraSetPrev(ExtraSetNext(extras, extra_prev(At(extras, unfixed_index)), src),
                 unfixed_index, dest - 1)

\* expand_dictionary from the resize on, for src = units.len() and
\* dest = src + 256.
grow(d, src, dest) ==
    IF d.status /= "ok" THEN d
    ELSE [d EXCEPT
            !.units = Resize(@, dest, ZeroUnit),
            !.extras = splice_out(
                           splice_in(closed_ring(chained_extras(@, src, dest), src, dest),
                                     src, dest, d.unfixed_index),
                           src, dest, d.unfixed_index)]

expand_dictionary(d) ==
    grow(IF Len(d.extras) + EXPAND_SIZE > 16 * 256
         THEN fix_block(d, Len(d.extras) - (16 * 256)) ELSE d,
         Len(d.units), Len(d.units) + EXPAND_SIZE)

\* reserve_unit: the unfixed_index it leaves.
advance_unfixed(d, index) ==
    IF index /= d.unfixed_index THEN d.unfixed_index
    ELSE IF extra_next(At(d.extras, index)) = index THEN Len(d.units)
    ELSE extra_next(At(d.extras, index))

\* reserve_unit: extra(prev).set_next(next)
unlink_next(extras, index) ==
    ExtraSetNext(extras, extra_prev(At(extras, index)), extra_next(At(extras, index)))

\* reserve_unit without its second block: the cell after index keeps index as
\* its prev.
unlink_prev_skipped(extras, index) == extras

\* reserve_unit: extra(next).set_prev(prev)
unlink_prev(extras, index) ==
    ExtraSetPrev(extras, extra_next(At(extras, index)), extra_prev(At(extras, index)))

\* reserve_unit after the expansion check.
reserve_in(d, index) ==
    IF d.status /= "ok" THEN d
    ELSE IF ~InRange(d.extras, index) THEN [d EXCEPT !.status = "panic"]
    ELSE [d EXCEPT
            !.unfixed_index = advance_unfixed(d, index),
            !.extras = ExtraSetFixed(unlink_prev(unlink_next(@, index), index), index)]

reserve_unit(d, index) ==
    reserve_in(IF index >= Len(d.units) THEN expand_dictionary(d) ELSE d, index)

\* fix_all_blocks' loop, for block_id in from..end-1.
RECURSIVE fix_blocks_from(_, _, _)
fix_blocks_from(d, block_id, end) ==
    IF block_id >= end \/ d.status /= "ok" THEN d
    ELSE fix_blocks_from(fix_block(d, block_id), block_id + 1, end)

fix_all_blocks(d) ==
    fix_blocks_from(d,
                    IF Len(d.extras) > NUM_OF_UNFIXED_BLOCKS
                    THEN Len(d.extras) - NUM_OF_UNFIXED_BLOCKS ELSE 0,
                    Len(d.extras))

\* is_good_offset, the loop over labels[i] for i in from..labels.len()-1.
RECURSIVE rest_unfixed(_, _, _)
rest_unfixed(d, offset, i) ==
    IF i >= Len(d.labels) THEN TRUE
    ELSE IF is_fixed(At(d.extras, BitXor(offset, At(d.labels, i)))) THEN FALSE
    ELSE rest_unfixed(d, offset, i + 1)

\* relative_offset & UPPER_MASK != 0, for UPPER_MASK = !(OFFSET_MAX - 1)
upper_bits(relative_offset) == relative_offset >= OFFSET_MAX

\* relative_offset & LOWER_MASK != 0
lower_bits(relative_offset) == BitAnd(relative_offset, LOWER_MASK) /= 0

\* is_good_offset without its loop over the labels.
is_good_offset_first_only(d, index, offset) ==
    IF is_used(At(d.extras, offset)) THEN FALSE
    ELSE ~(lower_bits(BitXor(index, offset)) /\ upper_bits(BitXor(index, offset)))

is_good_offset(d, index, offset) ==
    IF is_used(At(d.extras, offset)) THEN FALSE
    ELSE IF lower_bits(BitXor(index, offset)) /\ upper_bits(BitXor(index, offset))
    THEN FALSE
    ELSE rest_unfixed(d, offset, 1)

\* The offset find_good_offset falls back to.
fallback_offset(d, index) == BitOr(Len(d.units), BitAnd(index, 255))

\* find_good_offset's loop over the ring from unfixed_index.
RECURSIVE scan_ring(_, _, _)
scan_ring(d, index, unfixed_index) ==
    IF is_good_offset(d, index, BitXor(unfixed_index, At(d.labels, 0)))
    THEN BitXor(unfixed_index, At(d.labels, 0))
    ELSE IF extra_next(At(d.extras, unfixed_index)) = d.unfixed_index
    THEN fallback_offset(d, index)
    ELSE scan_ring(d, index, extra_next(At(d.extras, unfixed_index)))

\* find_good_offset: the offset, or a panic on labels[0] of an empty buffer.
find_good_offset(d, index) ==
    IF d.unfixed_index >= Len(d.units)
    THEN [status |-> "ok", offset |-> fallback_offset(d, index)]
    ELSE IF Len(d.labels) = 0 THEN [status |-> "panic", offset |-> 0]
    ELSE [status |-> "ok", offset |-> scan_ring(d, index, d.unfixed_index)]

\* arrange_child_nodes, first loop: the labels of the children from
\* dawg_child_index on.
RECURSIVE child_labels(_, _)
child_labels(dawg, dawg_child_index) ==
    IF dawg_child_index = 0 THEN <<>>
    ELSE <<dawg_label(dawg, dawg_child_index)>>
             \o child_labels(dawg, dawg_sibling(dawg, dawg_child_index))

\* arrange_child_nodes, first loop: whether every index it reads the label of
\* is inside the Dawg's pools (label_pool[i] panics otherwise).
RECURSIVE children_in_pool(_, _)
children_in_pool(dawg, dawg_child_index) ==
    IF dawg_child_index = 0 THEN TRUE
    ELSE IF ~InRange(dawg.label_pool, dawg_child_index) THEN FALSE
    ELSE children_in_pool(dawg, dawg_sibling(dawg, dawg_child_index))

\* arrange_child_nodes, the body of the second loop after reserve_unit (r)
\* for the child at dic_child_index.
place_child(r, dic_index, dic_child_index, is_leaf, leaf_value, label) ==
    IF r.status /= "ok" THEN r
    ELSE IF is_leaf
    THEN [r EXCEPT !.units =
              [@ EXCEPT ![dic_index + 1] = unit_set_has_leaf(@),
                        ![dic_child_index + 1] = unit_set_value(@, leaf_value)]]
    ELSE [r EXCEPT !.units = [@ EXCEPT ![dic_child_index + 1] = unit_set_label(@, label)]]

\* arrange_child_nodes, second loop, for i in from..labels.len()-1.
RECURSIVE place_children(_, _, _, _, _)
place_children(d, dic_index, offset, i, dawg_child_index) ==
    IF i >= Len(d.labels) \/ d.status /= "ok" THEN d
    ELSE place_children(
             place_child(reserve_unit(d, BitXor(offset, At(d.labels, i))),
                         dic_index, BitXor(offset, At(d.labels, i)),
                         dawg_is_leaf(d.dawg, dawg_child_index),
                         dawg_value(d.dawg, dawg_child_index),
                         At(d.labels, i)),
             dic_index, offset, i + 1, dawg_sibling(d.dawg, dawg_child_index))

\* arrange_child_nodes, its end: extra(offset).set_is_used() and the return.
mark_used(d, offset) ==
    IF d.status /= "ok" THEN [d |-> d, offset |-> 0]
    ELSE IF ~InRange(d.extras, offset)
    THEN [d |-> [d EXCEPT !.status = "panic"], offset |-> 0]
    ELSE [d |-> [d EXCEPT !.extras = ExtraSetUsed(@, offset)], offset |-> offset]

\* arrange_child_nodes from set_offset's result (so) on.
arrange_set(d, dawg_index, dic_index, offset, so) ==
    IF ~so.ok THEN [d |-> d, offset |-> 0]
    ELSE mark_used(place_children([d EXCEPT !.units = SetAt(@, dic_index, so.unit)],
                                  dic_index, offset, 0, dawg_child(d.dawg, dawg_index)),
                   offset)

\* arrange_child_nodes from find_good_offset's result (f) on.
arrange_found(d, dawg_index, dic_index, f) ==
    IF f.status /= "ok" THEN [d |-> [d EXCEPT !.status = f.status], offset |-> 0]
    ELSE arrange_set(d, dawg_index, dic_index, f.offset,
                     unit_set_offset(At(d.units, dic_index), BitXor(dic_index, f.offset)))

\* arrange_child_nodes after the labels are collected.
arrange_labelled(d, dawg_index, dic_index) ==
    arrange_found(d, dawg_index, dic_index, find_good_offset(d, dic_index))

\* arrange_child_nodes: the builder it leaves and the offset it returns (0 for
\* an offset set_offset refuses).
arrange_child_nodes(d, dawg_index, dic_index) ==
    IF ~children_in_pool(d.dawg, dawg_child(d.dawg, dawg_index))
    THEN [d |-> [d EXCEPT !.status = "panic"], offset |-> 0]
    ELSE arrange_labelled(
             [d EXCEPT !.labels = child_labels(d.dawg, dawg_child(d.dawg, dawg_index))],
             dawg_index, dic_index)

\* link_table.get: the stored offset, or -1 for None.
link_get(t, k) == IF k \in DOMAIN t THEN t[k] ELSE -1

link_insert(t, k, v) == [x \in (DOMAIN t) \cup {k} |-> IF x = k THEN v ELSE t[x]]

RECURSIVE build_dictionary_indexes(_, _, _)

RECURSIVE build_children(_, _, _)

\* build_dictionary_indexes, the loop over the children, after the recursive
\* call for one child returned r.  d is the builder before that call (its
\* depth is the caller's), next the child's sibling.
children_after(d, r, offset, next) ==
    IF ~r.ok \/ r.d.status /= "ok" THEN [d |-> [r.d EXCEPT !.depth = d.depth], ok |-> FALSE]
    ELSE IF next = 0 THEN [d |-> [r.d EXCEPT !.depth = d.depth], ok |-> TRUE]
    ELSE build_children([r.d EXCEPT !.depth = d.depth], offset, next)

\* build_dictionary_indexes, the loop over the children from dawg_child_index.
\* d.depth counts the calls of build_dictionary_indexes that are on the stack.
build_children(d, offset, dawg_child_index) ==
    children_after(
        d,
        build_dictionary_indexes([d EXCEPT !.depth = @ + 1], dawg_child_index,
                                 BitXor(offset, dawg_label(d.dawg, dawg_child_index))),
        offset, dawg_sibling(d.dawg, dawg_child_index))

\* build_dictionary_indexes: whether the first child's stored offset is reused.
reuses(d, dawg_child_index, dic_index) ==
    /\ dawg_is_merging(d.dawg, dawg_child_index)
    /\ link_get(d.link_table, dawg_child_index) /= -1
    /\ \/ ~upper_bits(BitXor(link_get(d.link_table, dawg_child_index), dic_index))
       \/ ~lower_bits(BitXor(link_get(d.link_table, dawg_child_index), dic_index))

\* The reuse path without its has_leaf.
reuse_link_no_leaf(d, dawg_child_index, dic_index, offset) ==
    [d EXCEPT !.units =
        [@ EXCEPT ![dic_index + 1] = unit_set_offset(@, offset).unit]]

\* build_dictionary_indexes, the reuse path: has_leaf and set_offset (whose
\* result is dropped).
reuse_link(d, dawg_child_index, dic_index, offset) ==
    [d EXCEPT !.units =
        [@ EXCEPT ![dic_index + 1] =
            unit_set_offset(IF dawg_is_leaf(d.dawg, dawg_child_index)
                            THEN unit_set_has_leaf(@) ELSE @,
                            offset).unit]]

\* build_dictionary_indexes from arrange_child_nodes' result (a) on.
descend(a, merging, dawg_child_index) ==
    IF a.offset = 0 THEN [d |-> a.d, ok |-> FALSE]
    ELSE build_children(
             IF merging
             THEN [a.d EXCEPT !.link_table = link_insert(@, dawg_child_index, a.offset)]
             ELSE a.d,
             a.offset, dawg_child_index)

\* build_dictionary_indexes: the builder it leaves and the bool it returns.
\* A recursion deeper than the DAWG has transitions follows a cycle of the
\* DAWG and never returns: it ends in a stack overflow.
build_dictionary_indexes(d, dawg_index, dic_index) ==
    IF d.depth > Len(d.dawg.base_pool)
    THEN [d |-> [d EXCEPT !.status = "overflow"], ok |-> FALSE]
    ELSE IF ~InRange(d.dawg.label_pool, dawg_index)
    THEN [d |-> [d EXCEPT !.status = "panic"], ok |-> FALSE]
    ELSE IF dawg_is_leaf(d.dawg, dawg_index) THEN [d |-> d, ok |-> TRUE]
    ELSE IF reuses(d, dawg_child(d.dawg, dawg_index), dic_index)
    THEN [d |-> reuse_link(d, dawg_child(d.dawg, dawg_index), dic_index,
                           BitXor(link_get(d.link_table, dawg_child(d.dawg, dawg_index)),
                                  dic_index)),
          ok |-> TRUE]
    ELSE descend(arrange_child_nodes(d, dawg_index, dic_index),
                 dawg_is_merging(d.dawg, dawg_child(d.dawg, dawg_index)),
                 dawg_child(d.dawg, dawg_index))

\* DictionaryBuilder::build, the three statements after reserve_unit(0).
root_set(d) ==
    [d EXCEPT !.extras = ExtraSetUsed(@, 0),
              !.units = SetAt(@, 0, unit_set_label(unit_set_offset(At(@, 0), 1).unit, 0))]

\* DictionaryBuilder::build from build_dictionary_indexes' result (r) on:
\* the bool is dropped and fix_all_blocks runs.
build_finish(r) ==
    IF r.d.status /= "ok" THEN [d |-> r.d, indexes_ok |-> r.ok]
    ELSE [d |-> fix_all_blocks(r.d), indexes_ok |-> r.ok]

\* DictionaryBuilder::build: the builder as it is when build returns (or
\* panics), and what build_dictionary_indexes returned to it.
dictionary_build(dawg) ==
    build_finish(
        build_dictionary_indexes(root_set(reserve_unit(NewDictionaryBuilder(dawg), 0)),
                                 0, 0))

\* ------------------------------------------------------------ Dictionary

NoneV == [tag |-> "None"]

PanicV == [tag |-> "panic"]

Some(x) == [tag |-> "Some", v |-> x]

dic_size(dic) == Len(dic.units)

has_value(dic, index) ==
    IF InRange(dic.units, index) THEN unit_has_leaf(At(dic.units, index)) ELSE FALSE

dic_value(dic, index) ==
    IF ~InRange(dic.units, index) THEN NoneV
    ELSE LET value_unit_index == BitXor(index, unit_offset(At(dic.units, index)))
         IN  IF ~InRange(dic.units, value_unit_index) THEN NoneV
             ELSE Some(unit_value(At(dic.units, value_unit_index)))

follow(dic, label, index) ==
    IF ~InRange(dic.units, index) THEN PanicV
    ELSE LET next_index == BitXor(BitXor(index, unit_offset(At(dic.units, index))), label)
         IN  IF ~InRange(dic.units, next_index) THEN PanicV
             ELSE IF unit_label(At(dic.units, next_index)) /= U32(label) THEN NoneV
             ELSE Some(next_index)

RECURSIVE follow_from(_, _, _, _)
follow_from(dic, key, k, index) ==
    IF k > Len(key) THEN Some(index)
    ELSE LET f == follow(dic, key[k], index)
         IN  IF f.tag /= "Some" THEN f ELSE follow_from(dic, key, k + 1, f.v)

follow_bytes(dic, key, index) == follow_from(dic, key, 1, index)

\* contains: TRUE, FALSE, or "panic".
contains(dic, key) ==
    LET f == follow_bytes(dic, key, dic.root)
    IN  IF f.tag = "panic" THEN PanicV
        ELSE IF f.tag = "None" THEN Some(FALSE)
        ELSE Some(has_value(dic, f.v))

find(dic, key) ==
    LET f == follow_bytes(dic, key, dic.root)
    IN  IF f.tag /= "Some" THEN f ELSE dic_value(dic, f.v)

\* ---------------------------------------------------------- serialization

\* write_u32::<LittleEndian> of a u32 below 2^31
le_bytes(n) == <<n % 256, (n \div 256) % 256, (n \div 65536) % 256, n \div (2 ^ 24)>>

\* write_u32::<BigEndian>(unit.0)
unit_bytes_big_endian(u) ==
    <<(u.bits \div (2 ^ 24)) + (IF u.leaf THEN 128 ELSE 0), (u.bits \div 65536) % 256,
      (u.bits \div 256) % 256, u.bits % 256>>

\* write_u32::<LittleEndian>(unit.0)
unit_bytes(u) ==
    <<u.bits % 256, (u.bits \div 256) % 256, (u.bits \div 65536) % 256,
      (u.bits \div (2 ^ 24)) + (IF u.leaf THEN 128 ELSE 0)>>

\* read_u32::<LittleEndian> of the 4 bytes at 0-based position pos, as a unit
read_unit(bytes, pos) ==
    [leaf |-> At(bytes, pos + 3) >= 128,
     bits |-> At(bytes, pos) + 256 * At(bytes, pos + 1) + 65536 * At(bytes, pos + 2)
                  + (2 ^ 24) * (At(bytes, pos + 3) % 128)]

\* The 4 * n bytes write emits for the first n units, in index order.
units_bytes(units, n) ==
    [i \in 1..(4 * n) |-> unit_bytes(units[((i - 1) \div 4) + 1])[((i - 1) % 4) + 1]]

\* Dictionary::write to a writer whose write call number fail_at (0 for the
\* count, k for unit k - 1) fails; fail_at = -1 is a writer that never fails.
\* The result and the bytes the writer has taken.
dic_write(dic, fail_at) ==
    LET size == Len(dic.units)
    IN  IF fail_at = 0 THEN [res |-> "panic", bytes |-> <<>>]
        ELSE IF fail_at > 0 /\ fail_at <= size
        THEN [res |-> "panic",
              bytes |-> le_bytes(size) \o units_bytes(dic.units, fail_at - 1)]
        ELSE [res |-> "Ok", bytes |-> le_bytes(size) \o units_bytes(dic.units, size)]

\* from_reader's loop: n units read from position 4 on, or "None" when the
\* reader ends before the last of them.
read_units(bytes, n) ==
    IF 4 + (4 * n) > Len(bytes) THEN NoneV
    ELSE Some([k \in 1..n |-> read_unit(bytes, 4 * k)])

\* Dictionary::from_reader on a reader that holds bytes.
from_reader(bytes) ==
    IF Len(bytes) < 4 THEN NoneV
    ELSE LET size == read_unit(bytes, 0)
             units == read_units(bytes, size.bits)
         IN  IF units.tag = "None" THEN NoneV
             ELSE Some([root |-> 0, units |-> units.v])

\* ------------------------------------------------------------ the system

VARIABLES
    stage,         \* "inserting", "dawg", "dict", "written", "loaded", "panicked"
    builder,       \* the DawgBuilder
    last_result,   \* what the last insert_key call returned
    inserted,      \* the (key, value) pairs of the calls that returned Ok
    dawg,          \* the Dawg DawgBuilder::build returned
    dbuilder,      \* the DictionaryBuilder as DictionaryBuilder::build left it
    indexes_ok,    \* what build_dictionary_indexes returned to build
    dictionary,    \* the Dictionary DictionaryBuilder::build returned
    writer_fails,  \* the write call the writer fails on (-1: none)
    write_result,  \* what Dictionary::write did
    written,       \* the bytes the writer has taken
    reader_len,    \* the number of bytes the reader holds
    loaded,        \* what Dictionary::from_reader returned
    pending        \* the build_dictionary_indexes calls still to be made

vars == <<stage, builder, last_result, inserted, dawg, dbuilder, indexes_ok,
          dictionary, writer_fails, write_result, written, reader_len, loaded,
          pending>>

Init ==
    /\ stage = "inserting"
    /\ builder = NewBuilder
    /\ last_result = "none"
    /\ inserted = <<>>
    /\ dawg = NoneV
    /\ dbuilder = NoneV
    /\ indexes_ok = TRUE
    /\ dictionary = NoneV
    /\ writer_fails = -1
    /\ write_result = "none"
    /\ written = <<>>
    /\ reader_len = 0
    /\ loaded = NoneV
    /\ pending = <<>>

\* builder.insert_key(key, value)
Inserted(r, key, value) ==
    /\ builder' = r.b
    /\ last_result' = r.res
    /\ inserted' = IF r.res = "Ok" THEN Append(inserted, <<key, value>>) ELSE inserted
    /\ stage' = IF r.res = "panic" THEN "panicked" ELSE stage

InsertKey(key, value) ==
    /\ stage = "inserting"
    /\ Len(inserted) < MaxKeys
    /\ Inserted(insert_key(builder, key, value), key, value)
    /\ UNCHANGED <<dawg, dbuilder, indexes_ok, dictionary, writer_fails,
                   write_result, written, reader_len, loaded, pending>>

\* builder.build()
Built(f) ==
    /\ builder' = f
    /\ dawg' = IF f.status = "ok" THEN build_dawg(f) ELSE NoneV
    /\ stage' = IF f.status = "ok" THEN "dawg" ELSE "panicked"

Build ==
    /\ stage = "inserting"
    /\ Built(build_fixed(builder))
    /\ UNCHANGED <<last_result, inserted, dbuilder, indexes_ok, dictionary,
                   writer_fails, write_result, written, reader_len, loaded, pending>>

\* DictionaryBuilder::new(dawg).build()
DictBuilt(r) ==
    /\ dbuilder' = r.d
    /\ indexes_ok' = r.indexes_ok
    /\ dictionary' = IF r.d.status = "ok" THEN [root |-> 0, units |-> r.d.units] ELSE NoneV
    /\ stage' = IF r.d.status = "ok" THEN "dict" ELSE "panicked"

DictBuild ==
    /\ stage = "dawg"
    /\ DictBuilt(dictionary_build(dawg))
    /\ UNCHANGED <<builder, last_result, inserted, dawg, writer_fails,
                   write_result, written, reader_len, loaded, pending>>

\* The write calls a writer is made to fail on, for a dictionary of size units.
FailPoints(size) == {-1, 0, 1, size}

\* dictionary.write(writer)
Write(fail_at) ==
    /\ stage = "dict"
    /\ write_result' = dic_write(dictionary, fail_at).res
    /\ written' = dic_write(dictionary, fail_at).bytes
    /\ writer_fails' = fail_at
    /\ stage' = "written"
    /\ UNCHANGED <<builder, last_result, inserted, dawg, dbuilder, indexes_ok,
                   dictionary, reader_len, loaded, pending>>

\* The lengths a reader of the written bytes is cut to.
ReadLengths(total) == {0, 3, 4, 7, total - 4, total - 1, total}

\* Dictionary::from_reader(reader), the reader holding the first n bytes
\* that write produced.
FromReader(n) ==
    /\ stage = "written"
    /\ write_result = "Ok"
    /\ reader_len' = n
    /\ loaded' = from_reader(SubSeq(written, 1, n))
    /\ stage' = "loaded"
    /\ UNCHANGED <<builder, last_result, inserted, dawg, dbuilder, indexes_ok,
                   dictionary, writer_fails, write_result, written, pending>>

Next ==
    \/ \E key \in KeyUniverse, value \in Values : InsertKey(key, value)
    \/ Build
    \/ DictBuild
    \/ /\ stage = "dict"
       /\ \E fail_at \in FailPoints(dic_size(dictionary)) : Write(fail_at)
    \/ /\ stage = "written"
       /\ \E n \in ReadLengths(Len(written)) : FromReader(n)

Spec == Init /\ [][Next]_vars

\* Relative offsets that set_offset refuses (OFFSET_MAX << 8 and above).  A
\* state gets one when find_good_offset finds no free cell nearer, which takes
\* a unit array of 2^29 cells: those cells are not held here, the offset is an
\* input.
FarOffsets == {OFFSET_MAX * 256, (OFFSET_MAX * 256) + 97, (OFFSET_MAX * 512) - 1}

\* build_dictionary_indexes for a state that is not a leaf and takes the
\* arrange_child_nodes path, find_good_offset having returned offset.
indexes_at(d, dawg_index, dic_index, offset) ==
    IF ~children_in_pool(d.dawg, dawg_child(d.dawg, dawg_index))
    THEN [d |-> [d EXCEPT !.status = "panic"], ok |-> FALSE]
    ELSE descend(arrange_set([d EXCEPT !.labels =
                                 child_labels(d.dawg, dawg_child(d.dawg, dawg_index))],
                             dawg_index, dic_index, offset,
                             unit_set_offset(At(d.units, dic_index),
                                             BitXor(dic_index, offset))),
                 dawg_is_merging(d.dawg, dawg_child(d.dawg, dawg_index)),
                 dawg_child(d.dawg, dawg_index))

\* DictionaryBuilder::new(dawg).build(), in a run where the offset found for
\* the children of the state build_dictionary_indexes is called with is offset.
FarDictBuild(offset) ==
    /\ stage = "dawg"
    /\ dawg_child(dawg, 0) /= 0
    /\ DictBuilt(build_finish(
                     indexes_at(root_set(reserve_unit(NewDictionaryBuilder(dawg), 0)),
                                0, 0, offset)))
    /\ UNCHANGED <<builder, last_result, inserted, dawg, writer_fails,
                   write_result, written, reader_len, loaded, pending>>

NextFar ==
    \/ \E key \in KeyUniverse, value \in Values : InsertKey(key, value)
    \/ Build
    \/ \E offset \in FarOffsets : FarDictBuild(offset)

\* Builds in which an offset is out of set_offset's reach.
FarSpec == Init /\ [][NextFar]_vars

\* The cells a step of the dictionary build is given: the low cells of the
\* array, while they are not fixed, and the second cell past its end.
RingCells == {0, 1}

\* The cell count up to which cells past the end are reserved.
MaxCells == 17 * EXPAND_SIZE

\* The blocks fix_block is called for: the first and the last of the
\* NUM_OF_UNFIXED_BLOCKS blocks at the end of the array.
RingBlocks(d) == {Len(d.extras) - NUM_OF_UNFIXED_BLOCKS, Len(d.extras) - 1}

\* DictionaryBuilder::new(dawg), for the Dawg of an empty builder.
RingInit ==
    /\ stage = "ring"
    /\ builder = build_fixed(NewBuilder)
    /\ last_result = "none"
    /\ inserted = <<>>
    /\ dawg = build_dawg(build_fixed(NewBuilder))
    /\ dbuilder = NewDictionaryBuilder(build_dawg(build_fixed(NewBuilder)))
    /\ indexes_ok = TRUE
    /\ dictionary = NoneV
    /\ writer_fails = -1
    /\ write_result = "none"
    /\ written = <<>>
    /\ reader_len = 0
    /\ loaded = NoneV
    /\ pending = <<>>

\* self.reserve_unit(index), for a cell that is not fixed: a cell of the
\* array, or a cell of the 256 cells the call adds to it.
ReserveUnit(index) ==
    /\ stage = "ring"
    /\ IF index < Len(dbuilder.units)
       THEN ~is_fixed(At(dbuilder.extras, index))
       ELSE index < Len(dbuilder.units) + EXPAND_SIZE /\ Len(dbuilder.units) < MaxCells
    /\ dbuilder' = reserve_unit(dbuilder, index)
    /\ UNCHANGED <<stage, builder, last_result, inserted, dawg, indexes_ok, dictionary,
                   writer_fails, write_result, written, reader_len, loaded, pending>>

\* self.fix_block(block_id), as fix_all_blocks calls it when the cells have
\* been reserved.
FixBlock(block_id) ==
    /\ stage \in {"ring", "fixing"}
    /\ block_id >= 0
    /\ dbuilder' = fix_block(dbuilder, block_id)
    /\ stage' = "fixing"
    /\ UNCHANGED <<builder, last_result, inserted, dawg, indexes_ok, dictionary,
                   writer_fails, write_result, written, reader_len, loaded, pending>>

NextRing ==
    \/ \E index \in RingCells \cup {Len(dbuilder.units) + 1} : ReserveUnit(index)
    \/ \E block_id \in RingBlocks(dbuilder) : FixBlock(block_id)

\* The reserve_unit and fix_block steps of a dictionary build, one at a time.
RingSpec == RingInit /\ [][NextRing]_vars

\* The keys of a long run are the three-byte keys over BulkSide labels, in
\* increasing order, each with a value of its own.
BulkSide == 6

BulkKey(n) ==
    <<97 + (n \div (BulkSide * BulkSide)), 97 + ((n \div BulkSide) % BulkSide),
      97 + (n % BulkSide)>>

\* builder.insert_key(key, value) for the next key of the long run.
BulkInsert ==
    /\ stage = "inserting"
    /\ Len(inserted) < BulkSide * BulkSide * BulkSide
    /\ Inserted(insert_key(builder, BulkKey(Len(inserted)), Len(inserted) + 1),
                BulkKey(Len(inserted)), Len(inserted) + 1)
    /\ UNCHANGED <<dawg, dbuilder, indexes_ok, dictionary, writer_fails,
                   write_result, written, reader_len, loaded, pending>>

NextBulk ==
    \/ BulkInsert
    \/ Build

\* A run long enough for fix_units to expand the hash table.
BulkSpec == Init /\ [][NextBulk]_vars

\* build_dictionary_indexes, its loop: the calls it makes for the children
\* from dawg_child_index on, in the order it makes them.
RECURSIVE child_calls(_, _, _, _)
child_calls(g, offset, dawg_child_index, depth) ==
    IF dawg_child_index = 0 THEN <<>>
    ELSE <<[dawg_index |-> dawg_child_index,
            dic_index |-> BitXor(offset, dawg_label(g, dawg_child_index)),
            depth |-> depth]>>
             \o child_calls(g, offset, dawg_sibling(g, dawg_child_index), depth)

\* build_dictionary_indexes up to its loop, from arrange_child_nodes' result
\* (a) on: the builder, the bool returned when the loop is not entered, and
\* the calls of the loop.
call_arranged(a, merging, dawg_child_index, depth) ==
    IF a.offset = 0 \/ a.d.status /= "ok" THEN [d |-> a.d, ok |-> FALSE, calls |-> <<>>]
    ELSE [d |-> IF merging
                THEN [a.d EXCEPT !.link_table = link_insert(@, dawg_child_index, a.offset)]
                ELSE a.d,
          ok |-> TRUE,
          calls |-> child_calls(a.d.dawg, a.offset, dawg_child_index, depth + 1)]

\* One call build_dictionary_indexes(e.dawg_index, e.dic_index) up to its
\* loop, e.depth calls being on the stack.
call_indexes(d, e) ==
    IF e.depth > Len(d.dawg.base_pool)
    THEN [d |-> [d EXCEPT !.status = "overflow"], ok |-> FALSE, calls |-> <<>>]
    ELSE IF ~InRange(d.dawg.label_pool, e.dawg_index)
    THEN [d |-> [d EXCEPT !.status = "panic"], ok |-> FALSE, calls |-> <<>>]
    ELSE IF dawg_is_leaf(d.dawg, e.dawg_index) THEN [d |-> d, ok |-> TRUE, calls |-> <<>>]
    ELSE IF reuses(d, dawg_child(d.dawg, e.dawg_index), e.dic_index)
    THEN [d |-> reuse_link(d, dawg_child(d.dawg, e.dawg_index), e.dic_index,
                           BitXor(link_get(d.link_table, dawg_child(d.dawg, e.dawg_index)),
                                  e.dic_index)),
          ok |-> TRUE, calls |-> <<>>]
    ELSE call_arranged(arrange_child_nodes(d, e.dawg_index, e.dic_index),
                       dawg_is_merging(d.dawg, dawg_child(d.dawg, e.dawg_index)),
                       dawg_child(d.dawg, e.dawg_index), e.depth)

\* DictionaryBuilder::new(dawg).build() up to its build_dictionary_indexes call.
BuildStart ==
    /\ stage = "dawg"
    /\ dbuilder' = root_set(reserve_unit(NewDictionaryBuilder(dawg), 0))
    /\ pending' = <<[dawg_index |-> 0, dic_index |-> 0, depth |-> 0]>>
    /\ stage' = "arranging"
    /\ UNCHANGED <<builder, last_result, inserted, dawg, indexes_ok, dictionary,
                   writer_fails, write_result, written, reader_len, loaded>>

\* The next call of build_dictionary_indexes has run up to its loop (r): a
\* call that returns false makes every caller return false.
Called(r) ==
    /\ dbuilder' = r.d
    /\ indexes_ok' = r.ok
    /\ pending' = IF r.ok THEN r.calls \o Tail(pending) ELSE <<>>
    /\ stage' = IF r.d.status = "ok" THEN "arranging" ELSE "panicked"

BuildIndexes ==
    /\ stage = "arranging"
    /\ pending /= <<>>
    /\ Called(call_indexes(dbuilder, pending[1]))
    /\ UNCHANGED <<builder, last_result, inserted, dawg, dictionary,
                   writer_fails, write_result, written, reader_len, loaded>>

\* build, from the return of build_dictionary_indexes(0, 0) on.
BuildFinish ==
    /\ stage = "arranging"
    /\ pending = <<>>
    /\ DictBuilt(build_finish([d |-> dbuilder, ok |-> indexes_ok]))
    /\ UNCHANGED <<builder, last_result, inserted, dawg, writer_fails,
                   write_result, written, reader_len, loaded, pending>>

\* The keys of the builds made call by call: with the labels 2 and 3 below
\* the root, the first free cells give offsets that is_good_offset refuses.
StepKeys == {<<>>, <<2>>, <<3>>, <<97>>, <<97, 114>>, <<99, 97, 114>>,
             <<102, 97, 114>>, <<114>>}

NextStep ==
    \/ \E key \in StepKeys, value \in Values : InsertKey(key, value)
    \/ Build
    \/ BuildStart
    \/ BuildIndexes
    \/ BuildFinish

\* The dictionary build, one build_dictionary_indexes call at a time.
StepSpec == Init /\ [][NextStep]_vars

\* ------------------------------------------------------------ properties

\* a < b in the bytewise order of keys (a proper prefix is less)
RECURSIVE key_less(_, _)
key_less(a, b) ==
    IF a = <<>> THEN b /= <<>>
    ELSE IF b = <<>> THEN FALSE
    ELSE IF a[1] /= b[1] THEN a[1] < b[1]
    ELSE key_less(Tail(a), Tail(b))

\* The successful insert_key calls were made in strictly increasing key order.
StrictlyOrdered ==
    \A i \in 1..(Len(inserted) - 1) : key_less(inserted[i][1], inserted[i + 1][1])

InsertedKeys == {inserted[i][1] : i \in 1..Len(inserted)}

\* A Dictionary was built from a strictly ordered key set.
BuiltInOrder == dictionary /= NoneV /\ StrictlyOrdered

\* The byte strings the dictionary is queried with: the keys of KeyUniverse,
\* and strings that extend or deviate from them.
Queries ==
    KeyUniverse \cup {<<97, 98>>, <<99, 97>>, <<99, 97, 114, 114>>, <<122>>,
                      <<0>>, <<97, 0>>, <<0, 97>>, <<97, 0, 114>>, <<99, 0>>}

\* C1: in the Dictionary built from pairs inserted in strictly increasing
\* key order, find(k) is Some(v) and contains(k) is true for every inserted
\* pair (k, v).
C1_InsertedKeysFound ==
    BuiltInOrder =>
        \A i \in 1..Len(inserted) :
            /\ find(dictionary, inserted[i][1]) = Some(inserted[i][2])
            /\ contains(dictionary, inserted[i][1]) = Some(TRUE)

\* Two inserted keys end in different cells that share one block of children
\* (the second parent took its offset from the link table), and both are found.
C1_Witness ==
    /\ BuiltInOrder
    /\ C1_InsertedKeysFound
    /\ DOMAIN dbuilder.link_table /= {}
    /\ \E i, j \in 1..Len(inserted) :
          /\ i < j
          /\ follow_bytes(dictionary, inserted[i][1], 0).tag = "Some"
          /\ follow_bytes(dictionary, inserted[j][1], 0).tag = "Some"
          /\ follow_bytes(dictionary, inserted[i][1], 0).v
                 /= follow_bytes(dictionary, inserted[j][1], 0).v
          /\ dic_value(dictionary, follow_bytes(dictionary, inserted[i][1], 0).v).tag = "Some"
          /\ BitXor(follow_bytes(dictionary, inserted[i][1], 0).v,
                    unit_offset(At(dictionary.units,
                                   follow_bytes(dictionary, inserted[i][1], 0).v)))
                 = BitXor(follow_bytes(dictionary, inserted[j][1], 0).v,
                          unit_offset(At(dictionary.units,
                                         follow_bytes(dictionary, inserted[j][1], 0).v)))

\* C2: in a Dictionary built from a strictly ordered key set, contains(q) is
\* false for every byte string q that is not in the key set.
C2_OthersNotContained ==
    BuiltInOrder =>
        \A q \in Queries \ InsertedKeys : contains(dictionary, q) = Some(FALSE)

\* C3: in a Dictionary built from a strictly ordered key set, find(q) is None
\* for every byte string q that was not inserted.
C3_OthersNotFound ==
    BuiltInOrder =>
        \A q \in Queries \ InsertedKeys : find(dictionary, q) = NoneV

C5_RoundTrip ==
    /\ (stage \in {"written", "loaded"} /\ write_result = "Ok") =>
          /\ Len(written) = 4 * (1 + dic_size(dictionary))
          /\ SubSeq(written, 1, 4) = le_bytes(dic_size(dictionary))
          /\ \A k \in 1..dic_size(dictionary) :
                 SubSeq(written, (4 * k) + 1, (4 * k) + 4) = unit_bytes(dictionary.units[k])
    /\ (stage = "loaded" /\ reader_len = Len(written)) =>
          /\ loaded.tag = "Some"
          /\ dic_size(loaded.v) = dic_size(dictionary)
          /\ loaded.v.units = dictionary.units
          /\ \A q \in Queries : find(loaded.v, q) = find(dictionary, q)

\* A dictionary of at least two keys was written, read back whole, and a key
\* is found in the copy.
C5_Witness ==
    /\ stage = "loaded"
    /\ write_result = "Ok"
    /\ reader_len = Len(written)
    /\ StrictlyOrdered
    /\ Len(inserted) >= 2
    /\ loaded.tag = "Some"
    /\ find(loaded.v, inserted[2][1]) = Some(inserted[2][2])

\* C6: with no keys inserted, build yields a Dawg with states_count 1 and
\* transition_count 0, and DictionaryBuilder::build on it runs to completion
\* and returns a Dictionary with size > 0 and contains("") false.
C6_EmptyBuild ==
    (inserted = <<>> /\ stage /= "inserting") =>
        /\ dawg /= NoneV
        /\ states_count(dawg) = 1
        /\ transition_count(dawg) = 0
        /\ stage /= "dawg" =>
              /\ dictionary /= NoneV
              /\ dic_size(dictionary) > 0
              /\ contains(dictionary, <<>>) = Some(FALSE)

\* C7: when a relative offset to be stored is not encodable, so that
\* build_dictionary_indexes returns false, DictionaryBuilder::build reports
\* the failure: it returns no Dictionary.
C7_FailureReported ==
    (dbuilder /= NoneV /\ ~indexes_ok) => dictionary = NoneV

\* C8: when the writer fails on a write, Dictionary::write returns an error
\* to its caller; when the reader ends before the count or before the last
\* unit, from_reader returns None.
C8_IoFailuresReported ==
    /\ (stage = "written" /\ writer_fails \in 0..dic_size(dictionary)) =>
          write_result = "Err"
    /\ (stage = "loaded" /\ reader_len < Len(written)) => loaded = NoneV

\* C10: the Dawg that build returns has merged_states_count equal to
\* transition_count + merged_transitions_count + 1 - states_count, and the
\* subtraction does not wrap.
C10_MergedStatesCount ==
    dawg /= NoneV =>
        /\ merged_states_count(dawg)
               = transition_count(dawg) + merged_transitions_count(dawg) + 1
                     - states_count(dawg)
        /\ states_count(dawg)
               <= transition_count(dawg) + merged_transitions_count(dawg) + 1

\* A Dawg built from in-order inserts in which sibling groups were merged.
C10_Witness ==
    /\ dawg /= NoneV
    /\ StrictlyOrdered
    /\ Len(inserted) >= 2
    /\ merged_transitions_count(dawg) > 0
    /\ merged_states_count(dawg) > 1

car == <<99, 97, 114>>

far == <<102, 97, 114>>

\* C9 as stated: building from "car" with value 1 and then "far" with value 2
\* merges the suffix "ar", so merged_transitions_count is above 0, and both
\* keys map to their own values.
C9_DistinctValuesMerge ==
    (dawg /= NoneV /\ inserted = <<<<car, 1>>, <<far, 2>>>>) =>
        /\ merged_transitions_count(dawg) > 0
        /\ dictionary /= NoneV =>
              /\ find(dictionary, car) = Some(1)
              /\ find(dictionary, far) = Some(2)

\* C9, for the values the merge depends on: building from "car" and then
\* "far" merges the suffix "ar" exactly when the two values are equal;
\* merged_transitions_count is then 3 (the groups of the leaf, of "r" and of
\* "a", each a chain of length 1) with 3 merging states, it is 0 when the
\* values differ, and both keys map to their own values either way.
C9_EqualValuesMerge ==
    \A v1, v2 \in Values :
        (dawg /= NoneV /\ inserted = <<<<car, v1>>, <<far, v2>>>>) =>
            /\ merged_transitions_count(dawg) = IF v1 = v2 THEN 3 ELSE 0
            /\ merging_states_count(dawg) = IF v1 = v2 THEN 3 ELSE 0
            /\ transition_count(dawg) = IF v1 = v2 THEN 5 ELSE 8
            /\ dictionary /= NoneV =>
                  /\ find(dictionary, car) = Some(v1)
                  /\ find(dictionary, far) = Some(v2)

\* "car" and "far" were inserted with one value, the suffix was merged and
\* the dictionary finds both.
C9_Witness ==
    /\ inserted = <<<<car, 1>>, <<far, 1>>>>
    /\ dictionary /= NoneV
    /\ merged_transitions_count(dawg) = 3
    /\ find(dictionary, far) = Some(1)

\* The bytes a cell is arrived at with.
QueryBytes == {0, 97, 99, 102, 114}

\* C11: when DictionaryBuilder::build returns, every cell of the unit array
\* is fixed (none is left in the free ring with its initial all-zero
\* contents), and a cell that holds no child has a label that is wrong for
\* every arrival: no cell p and byte b with p XOR offset(units[p]) XOR b = c
\* find label(units[c]) = b.
C11_UnusedCellsFixed ==
    BuiltInOrder =>
        \A c \in 0..(Len(dbuilder.units) - 1) :
            /\ is_fixed(At(dbuilder.extras, c))
            /\ At(dbuilder.units, c) = ZeroUnit =>
                  \A p \in 0..(Len(dbuilder.units) - 1), b \in QueryBytes :
                      BitXor(BitXor(p, unit_offset(At(dbuilder.units, p))), b) = c
                          => unit_label(At(dbuilder.units, c)) /= U32(b)

\* The cells of d that are not is_fixed.
unfixed_cells(d) == {c \in 0..(Len(d.extras) - 1) : ~is_fixed(At(d.extras, c))}

\* The cells met on a walk of n next links from cell c, and the cell the
\* walk ends at.
walk_join(a, b) == [cells |-> a.cells \cup b.cells, last |-> b.last]

RECURSIVE walk(_, _, _)
walk_on(d, a, n) == walk_join(a, walk(d, a.last, n))

walk(d, c, n) ==
    IF n <= 1 THEN [cells |-> {c}, last |-> extra_next(At(d.extras, c))]
    ELSE walk_on(d, walk(d, c, n \div 2), n - (n \div 2))

\* The cells of U are one circular doubly-linked list that unfixed_index is a
\* member of.
one_ring(d, U) ==
    /\ d.unfixed_index \in U
    /\ \A c \in U :
          /\ extra_next(At(d.extras, c)) \in U
          /\ extra_prev(At(d.extras, c)) \in U
          /\ extra_next(At(d.extras, extra_prev(At(d.extras, c)))) = c
          /\ extra_prev(At(d.extras, extra_next(At(d.extras, c)))) = c
    /\ walk(d, d.unfixed_index, Cardinality(U)).cells = U

ring_ok(d) ==
    \A U \in {unfixed_cells(d)} :
        IF U = {} THEN d.unfixed_index = Len(d.units) ELSE one_ring(d, U)

\* C12: after every reserve_unit, expand_dictionary and fix_block step the
\* cells that are not is_fixed form exactly one circular doubly-linked ring
\* (next(prev(c)) = c, prev(next(c)) = c, no is_fixed cell reachable from
\* unfixed_index), and unfixed_index is a member of it, or equals units.len()
\* exactly when no cell is unfixed.
C12_OneFreeRing ==
    /\ stage \in {"ring", "fixing"} => ring_ok(dbuilder)
    /\ stage = "ring" => \A d \in {expand_dictionary(dbuilder)} : ring_ok(d)

\* A reserve_unit that expanded the array past 16 * 256 cells, the fix_block
\* in expand_dictionary having fixed cell 0, after cell 1 was reserved.
C12_Witness ==
    /\ stage = "ring"
    /\ Len(dbuilder.units) > 16 * 256
    /\ is_fixed(At(dbuilder.extras, 1))
    /\ dbuilder.num_unused_nuts > 0
    /\ unfixed_cells(dbuilder) /= {}

\* The labels met from transition t on by following sibling until it is 0.
RECURSIVE enumerate(_, _, _)
enumerate(d, t, fuel) ==
    IF t = 0 \/ fuel = 0 \/ ~InRange(d.base_pool, t) THEN <<>>
    ELSE <<dawg_label(d, t)>> \o enumerate(d, dawg_sibling(d, t), fuel - 1)

\* The transition with the given label among t and its siblings, or 0.
RECURSIVE seek(_, _, _, _)
seek(d, t, label, fuel) ==
    IF t = 0 \/ fuel = 0 \/ ~InRange(d.base_pool, t) THEN 0
    ELSE IF dawg_label(d, t) = label THEN t
    ELSE seek(d, dawg_sibling(d, t), label, fuel - 1)

\* The transition the bytes of key lead to from transition index, or -1.
RECURSIVE reach(_, _, _)
reach_on(d, t, key) == IF t = 0 THEN -1 ELSE reach(d, t, Tail(key))

reach(d, index, key) ==
    IF key = <<>> THEN index
    ELSE reach_on(d, seek(d, dawg_child(d, index), key[1], 257), key)

Prefixes == UNION {{SubSeq(k, 1, n) : n \in 0..Len(k)} : k \in InsertedKeys}

\* The labels of the children of the state the prefix p leads to: the next
\* byte of every inserted key that starts with p, 0 for the key p itself.
expected_labels(p) ==
    {IF Len(k) > Len(p) THEN k[Len(p) + 1] ELSE 0 :
        k \in {x \in InsertedKeys :
                  Len(x) >= Len(p) /\ SubSeq(x, 1, Len(p)) = p}}

SeqSet(q) == {q[i] : i \in 1..Len(q)}

\* Every run of transitions chained by has_sibling goes up in label and ends
\* inside the pool, and the child of every transition that is not a leaf is
\* the first transition of a run.
groups_ordered(base_pool, label_pool) ==
    \A i \in 1..(Len(base_pool) - 1) :
        /\ BaseHasSibling(At(base_pool, i)) =>
              /\ i + 1 < Len(base_pool)
              /\ At(label_pool, i) < At(label_pool, i + 1)
        /\ At(label_pool, i) /= 0 =>
              /\ BaseChild(At(base_pool, i)) \in 1..(Len(base_pool) - 1)
              /\ ~BaseHasSibling(At(base_pool, BaseChild(At(base_pool, i)) - 1))

children_enumerated(d, p, t) ==
    /\ t >= 0
    /\ SeqSet(enumerate(d, dawg_child(d, t), 257)) = expected_labels(p)
    /\ Len(enumerate(d, dawg_child(d, t), 257)) = Cardinality(expected_labels(p))

groups_committed ==
    /\ stage = "inserting" => groups_ordered(builder.base_pool, builder.label_pool)
    /\ dawg /= NoneV =>
          /\ groups_ordered(dawg.base_pool, dawg.label_pool)
          /\ \A p \in Prefixes : children_enumerated(dawg, p, reach(dawg, 0, p))

block_starts(b) ==
    {i \in 1..(Len(b.base_pool) - 1) :
        i = 1 \/ ~BaseHasSibling(At(b.base_pool, i - 1))}

\* The (packed base, label) sequence of the block that starts at transition i.
RECURSIVE block_of(_, _)
block_of(b, i) ==
    IF ~InRange(b.base_pool, i) THEN <<>>
    ELSE IF BaseHasSibling(At(b.base_pool, i))
    THEN <<<<At(b.base_pool, i), At(b.label_pool, i)>>>> \o block_of(b, i + 1)
    ELSE <<<<At(b.base_pool, i), At(b.label_pool, i)>>>>

\* The slots of the hash table that are taken.
taken_slots(b) == {j \in 1..Len(b.hash_table) : b.hash_table[j] /= 0}

\* The hash table holds the start of every committed block, each once.
table_holds_blocks(b) ==
    /\ {b.hash_table[j] : j \in taken_slots(b)} = block_starts(b)
    /\ Cardinality(taken_slots(b)) = Cardinality(block_starts(b))

\* No two committed blocks are element for element equal.
blocks_distinct(b) ==
    Cardinality({block_of(b, i) : i \in block_starts(b)}) = Cardinality(block_starts(b))

labelled(d, e) ==
    [d EXCEPT !.labels = child_labels(d.dawg, dawg_child(d.dawg, e.dawg_index))]

\* The call e takes the arrange_child_nodes path.
arranges(d, e) ==
    /\ e.depth <= Len(d.dawg.base_pool)
    /\ InRange(d.dawg.label_pool, e.dawg_index)
    /\ ~dawg_is_leaf(d.dawg, e.dawg_index)
    /\ ~reuses(d, dawg_child(d.dawg, e.dawg_index), e.dic_index)

\* What C15 says of f, find_good_offset having returned f.offset in d for
\* the state at index.
offset_is_good(d, index, f) ==
    /\ f.offset /= 0
    /\ InRange(d.extras, f.offset) => ~is_used(At(d.extras, f.offset))
    /\ \/ ~lower_bits(BitXor(index, f.offset))
       \/ ~upper_bits(BitXor(index, f.offset))
    /\ \A k \in 1..Len(d.labels) :
          /\ InRange(d.extras, BitXor(f.offset, d.labels[k]))
                => ~is_fixed(At(d.extras, BitXor(f.offset, d.labels[k])))
          /\ \A j \in 1..Len(d.labels) :
                j /= k => BitXor(f.offset, d.labels[j]) /= BitXor(f.offset, d.labels[k])

StepsAgree ==
    stage \in {"dict", "panicked"} /\ dawg /= NoneV =>
        /\ dbuilder = dictionary_build(dawg).d
        /\ indexes_ok = dictionary_build(dawg).indexes_ok

\* insert_key(key, value) returns Err on b and leaves every field of b as it
\* was.
err_keeps(b, r) == r.res = "Err" => r.b = b

\* C16: whenever insert_key returns Err, every field of the DawgBuilder is
\* what it was before the call (so that the inserts and the build that follow
\* give the Dawg they would have given without the rejected call).
C16_ErrLeavesBuilder ==
    stage = "inserting" =>
        \A key \in KeyUniverse, value \in Values :
            err_keeps(builder, insert_key(builder, key, value))

\* A builder with unfixed units below the root and a key that insert_key
\* rejects on it below the root, after a byte that matched.
C16_Witness ==
    /\ stage = "inserting"
    /\ Len(builder.unfixed_units) >= 3
    /\ \E key \in KeyUniverse :
          /\ insert_key(builder, key, 1).res = "Err"
          /\ find_chain(builder, key_bytes(key), 0, 0).index /= 0

\* The units of b that are in use.
live_units(b) == Len(b.unit_pool) - Len(b.unused_units)

\* r, the result of an insert_key on b, did not extend the working trie.
trie_kept(b, r) ==
    \/ r.res = "Err"
    \/ /\ r.res = "Ok"
       /\ live_units(r.b) = live_units(b)
       /\ Len(r.b.unfixed_units) = Len(b.unfixed_units)

\* C17: insert_key with a key byte for byte equal to the key inserted last
\* never extends the working trie: it returns Err, or leaves the number of
\* live units and the depth of the unfixed stack as they were.
C17_DuplicateKeepsTrie ==
    (stage = "inserting" /\ inserted /= <<>> /\ StrictlyOrdered) =>
        \A value \in Values :
            trie_kept(builder, insert_key(builder, Last(inserted)[1], value))

=============================================================================
